---- MODULE Spec2Model ----
(***************************************************************************)
(* A model of the sbet crate: the record codec (Reader::read_one,          *)
(* Writer::write_one), the Reader iterator, interpolate,                   *)
(* estimate_number_of_points and the two loops of the command line tool    *)
(* (filter and to-csv with decimation).                                    *)
(*                                                                         *)
(* An f64 is modelled as a record:                                         *)
(*   [cls |-> "fin", n |-> i]   the finite value i / 2^FracBits            *)
(*   [cls |-> "inf", n |-> s]   the infinity of sign s (1 or -1)           *)
(*   [cls |-> "nan", n |-> 0]   the (quiet) NaN                            *)
(*   [cls |-> "bits", n |-> b]  any other binary64 pattern b, kept as its  *)
(*                              eight bytes                                *)
(* Arithmetic is IEEE-754 round-to-nearest-even, with the significand      *)
(* narrowed from 53 to MantBits bits and the exponent range narrowed to    *)
(* [-FracBits, ExpBits]; the codec writes the binary64 bit pattern of the  *)
(* value, least significant byte first, as byteorder's LittleEndian does.  *)
(* The finite zero stands for +0.0; -0.0 is not an input of the model.     *)
(***************************************************************************)
EXTENDS Integers, Sequences, FiniteSets, TLC

\* ------------------------------------------------------------------ bounds
MantBits == 3       \* bits of significand kept by the arithmetic
FracBits == 3       \* the smallest positive value is 2^-FracBits
ExpBits == 4        \* the largest finite value is (2^MantBits - 1) * 2^(ExpBits - FracBits)

\* --------------------------------------------------------------- constants
SIZE_OF_SBET_POINT_IN_BYTES == 112

\* ------------------------------------------------------------ f64 values
RECURSIVE Pow2(_)
Pow2(k) == IF k <= 0 THEN 1 ELSE 2 * Pow2(k - 1)

RECURSIVE FloorLog2(_)
FloorLog2(a) == IF a <= 1 THEN 0 ELSE 1 + FloorLog2(a \div 2)

Abs(i) == IF i < 0 THEN -i ELSE i
Sign(i) == IF i < 0 THEN -1 ELSE 1

Fin(i) == [cls |-> "fin", n |-> i]
Inf(s) == [cls |-> "inf", n |-> s]
NaN == [cls |-> "nan", n |-> 0]
Bits(b) == [cls |-> "bits", n |-> b]

\* The scaled integer of the whole number i.
Whole(i) == Fin(i * Pow2(FracBits))

MaxFinite == (Pow2(MantBits) - 1) * Pow2(ExpBits)

IsNum(x) == x.cls \in {"fin", "inf"}
SignOf(x) == IF x.n < 0 THEN -1 ELSE 1

\* The nearest integer to a / d (a >= 0, d > 0), ties to the even one.
NearestEven(a, d) ==
    IF 2 * (a % d) < d THEN a \div d
    ELSE IF 2 * (a % d) > d THEN (a \div d) + 1
    ELSE IF (a \div d) % 2 = 0 THEN a \div d ELSE (a \div d) + 1

\* Rounding, in units of 2^-FracBits: to MantBits significant bits, ties to even,
\* overflowing to an infinity.
\* The spacing of the format's values at magnitude q.
Quantum(q) == IF q < Pow2(MantBits) THEN 1 ELSE Pow2(FloorLog2(q) - (MantBits - 1))
\* The value of sign s and magnitude m, an infinity beyond the largest finite one.
Rounded(s, m) == IF m > MaxFinite THEN Inf(s) ELSE Fin(s * m)
\* num / den rounded to a multiple of u.
RoundTo(num, den, u) == Rounded(Sign(num), NearestEven(Abs(num), den * u) * u)
\* The value num / den (den > 0), rounded to the nearest value of the format.
Round(num, den) == RoundTo(num, den, Quantum(Abs(num) \div den))

\* f64 + f64
fadd(x, y) ==
    IF ~IsNum(x) \/ ~IsNum(y) THEN NaN
    ELSE IF x.cls = "inf" /\ y.cls = "inf" THEN (IF x.n = y.n THEN x ELSE NaN)
    ELSE IF x.cls = "inf" THEN x
    ELSE IF y.cls = "inf" THEN y
    ELSE Round(x.n + y.n, 1)

fneg(x) == IF IsNum(x) THEN [x EXCEPT !.n = -x.n] ELSE x

\* f64 - f64
fsub(x, y) == fadd(x, fneg(y))

\* f64 * f64
fmul(x, y) ==
    IF ~IsNum(x) \/ ~IsNum(y) THEN NaN
    ELSE IF x.cls = "inf" \/ y.cls = "inf"
         THEN (IF x.n = 0 \/ y.n = 0 THEN NaN ELSE Inf(SignOf(x) * SignOf(y)))
    ELSE Round(x.n * y.n, Pow2(FracBits))

\* f64 / f64
fdiv(x, y) ==
    IF ~IsNum(x) \/ ~IsNum(y) THEN NaN
    ELSE IF x.cls = "inf" THEN (IF y.cls = "inf" THEN NaN ELSE Inf(SignOf(x) * SignOf(y)))
    ELSE IF y.cls = "inf" THEN Fin(0)
    ELSE IF y.n = 0 THEN (IF x.n = 0 THEN NaN ELSE Inf(SignOf(x)))
    ELSE Round(Sign(y.n) * x.n * Pow2(FracBits), Abs(y.n))

\* The total order of the numbers; every comparison with a NaN is false.
Key(x) == IF x.cls = "inf" THEN x.n * (MaxFinite + 1) ELSE x.n
fle(x, y) == IsNum(x) /\ IsNum(y) /\ Key(x) <= Key(y)
flt(x, y) == IsNum(x) /\ IsNum(y) /\ Key(x) < Key(y)
fge(x, y) == fle(y, x)
fgt(x, y) == flt(y, x)

\* ------------------------------------------------------------ the codec
\* The struct's fields, in declaration order.
Fields ==
    << "time", "latitude", "longitude", "altitude",
       "x_velocity", "y_velocity", "z_velocity",
       "roll", "pitch", "yaw", "wander_angle",
       "x_acceleration", "y_acceleration", "z_acceleration",
       "x_angular_rate", "y_angular_rate", "z_angular_rate" >>

FieldNames == {Fields[i] : i \in 1..Len(Fields)}

\* Point::default(): every field 0.0.
DefaultPoint == [f \in FieldNames |-> Fin(0)]

\* The point whose fields, in declaration order, are the values of vs.
PointOf(vs) == [f \in FieldNames |-> vs[CHOOSE i \in 1..Len(Fields) : Fields[i] = f]]

Reverse(s) == [i \in 1..Len(s) |-> s[Len(s) + 1 - i]]

\* f64::to_bits, as eight bytes, most significant first: sign (1 bit), biased
\* exponent (11 bits, bias 1023), fraction (52 bits, of which the model's values
\* use the leading 12).
\* The eight bytes of sign bit s (0 or 128), biased exponent e and leading fraction
\* bits m.
pattern(s, e, m) ==
    << s + (e \div 16), (e % 16) * 16 + (m \div 256), m % 256, 0, 0, 0, 0, 0 >>

\* The pattern of the finite value of magnitude a, 2^k <= a < 2^(k+1).
finite_bits(s, a, k) ==
    pattern(s, 1023 + k - FracBits, ((a - Pow2(k)) * 4096) \div Pow2(k))

to_bits(x) ==
    IF x.cls = "bits" THEN x.n
    ELSE IF x.cls = "nan" THEN <<127, 248, 0, 0, 0, 0, 0, 0>>
    ELSE IF x.cls = "inf" THEN <<(IF x.n < 0 THEN 128 ELSE 0) + 127, 240, 0, 0, 0, 0, 0, 0>>
    ELSE IF x.n = 0 THEN <<0, 0, 0, 0, 0, 0, 0, 0>>
    ELSE finite_bits(IF x.n < 0 THEN 128 ELSE 0, Abs(x.n), FloorLog2(Abs(x.n)))

\* f64::from_bits of eight bytes, most significant first.
\* The value s * n if it is one of the format, and else the pattern itself.
in_format(b, s, n) == IF Round(n, 1) # Fin(n) THEN Bits(b) ELSE Fin(s * n)

\* The finite value s * sig * 2^x, in units of 2^-FracBits.
finite_value(b, s, sig, x) ==
    IF x > ExpBits \/ (x < 0 /\ sig % Pow2(-x) # 0) THEN Bits(b)
    ELSE in_format(b, s, IF x >= 0 THEN sig * Pow2(x) ELSE sig \div Pow2(-x))

\* The value of sign s, biased exponent e and leading fraction bits m.
value_of(b, s, e, m) ==
    IF e = 2047
    THEN (IF m = 0 THEN Inf(s) ELSE IF b = <<127, 248, 0, 0, 0, 0, 0, 0>> THEN NaN ELSE Bits(b))
    ELSE IF e = 0 THEN (IF m = 0 /\ s = 1 THEN Fin(0) ELSE Bits(b))
    ELSE finite_value(b, s, 4096 + m, e - 1023 - 12 + FracBits)

from_bits(b) ==
    IF \E i \in 4..8 : b[i] # 0 THEN Bits(b)
    ELSE value_of(b, IF b[1] >= 128 THEN -1 ELSE 1,
                  (b[1] % 128) * 16 + (b[2] \div 16),
                  (b[2] % 16) * 256 + b[3])

\* LittleEndian::write_f64 into an 8-byte buffer.
to_le_bytes(x) == Reverse(to_bits(x))

\* LittleEndian::read_f64 of an 8-byte buffer.
from_le_bytes(buf) == from_bits(Reverse(buf))

\* Read::read_exact of n bytes at pos: the bytes, or UnexpectedEof with the
\* rest of the source consumed.
read_exact(bytes, pos, n) ==
    IF Len(bytes) - pos >= n
    THEN [ok |-> TRUE, buf |-> SubSeq(bytes, pos + 1, pos + n), pos |-> pos + n]
    ELSE [ok |-> FALSE, buf |-> <<>>, pos |-> Len(bytes)]

\* ReadBytesExt::read_f64::<LittleEndian>
\* The f64 of the buffer read_exact filled, or its error.
f64_of(r) ==
    IF r.ok THEN [ok |-> TRUE, val |-> from_le_bytes(r.buf), pos |-> r.pos]
    ELSE [ok |-> FALSE, val |-> NaN, pos |-> r.pos]

read_f64(bytes, pos) == f64_of(read_exact(bytes, pos, 8))

\* WriteBytesExt::write_f64::<LittleEndian>
write_f64(sink, x) == sink \o to_le_bytes(x)

\* read_one with latitude and longitude read in the other order.
ReadOrderSwapped ==
    << "time", "longitude", "latitude", "altitude",
       "x_velocity", "y_velocity", "z_velocity",
       "roll", "pitch", "yaw", "wander_angle",
       "x_acceleration", "y_acceleration", "z_acceleration",
       "x_angular_rate", "y_angular_rate", "z_angular_rate" >>

\* The order in which read_one reads the fields.
ReadOrder ==
    << "time", "latitude", "longitude", "altitude",
       "x_velocity", "y_velocity", "z_velocity",
       "roll", "pitch", "yaw", "wander_angle",
       "x_acceleration", "y_acceleration", "z_acceleration",
       "x_angular_rate", "y_angular_rate", "z_angular_rate" >>

\* The order in which write_one writes the fields.
WriteOrder ==
    << "time", "latitude", "longitude", "altitude",
       "x_velocity", "y_velocity", "z_velocity",
       "roll", "pitch", "yaw", "wander_angle",
       "x_acceleration", "y_acceleration", "z_acceleration",
       "x_angular_rate", "y_angular_rate", "z_angular_rate" >>

\* The reads of fields i.. of read_one's struct literal, each ended by `?`.
RECURSIVE read_fields(_, _, _)
\* Field i, given the result r of its read_f64: `?` returns the error.
read_field(bytes, i, pt, r) ==
    IF ~r.ok THEN [ok |-> FALSE, point |-> pt, pos |-> r.pos]
    ELSE read_fields(bytes, i + 1, [ok |-> TRUE, pos |-> r.pos,
                                    point |-> [pt EXCEPT ![ReadOrder[i]] = r.val]])

\* acc is what the fields before i gave: the point so far and the position.
read_fields(bytes, i, acc) ==
    IF i > Len(ReadOrder) THEN acc
    ELSE read_field(bytes, i, acc.point, read_f64(bytes, acc.pos))

\* Reader::read_one: Ok(Some(point)), Ok(None) or Err(UnexpectedEof), and the
\* position it leaves the source at.
\* The struct literal: the point, or the error of the first read that failed.
read_rest(rest) ==
    IF rest.ok THEN [res |-> "Some", point |-> rest.point, pos |-> rest.pos]
    ELSE [res |-> "Err", point |-> DefaultPoint, pos |-> rest.pos]

\* The match on the first read: UnexpectedEof is the end of the stream.
read_first(bytes, first) ==
    IF ~first.ok THEN [res |-> "None", point |-> DefaultPoint, pos |-> first.pos]
    ELSE read_rest(read_fields(bytes, 2,
            [ok |-> TRUE, pos |-> first.pos,
             point |-> [DefaultPoint EXCEPT ![ReadOrder[1]] = first.val]]))

read_one(bytes, pos) == read_first(bytes, read_f64(bytes, pos))

\* The writes of fields i.. of write_one.
RECURSIVE write_fields(_, _, _)
write_fields(sink, point, i) ==
    IF i > Len(WriteOrder) THEN sink
    ELSE write_fields(write_f64(sink, point[WriteOrder[i]]), point, i + 1)

\* write_one that leaves the last field out.
write_one_short(sink, point) == SubSeq(write_fields(sink, point, 1), 1, Len(sink) + 8 * (Len(WriteOrder) - 1))

\* Writer::write_one on a sink that accepts every write.
write_one(sink, point) == write_fields(sink, point, 1)

\* The elements of the Reader as an Iterator.
Ok(p) == [tag |-> "Ok", point |-> p]
Err(k) == [tag |-> "Err", kind |-> k]

\* estimate_number_of_points, from the file's length in bytes.
estimate_number_of_points(len) == len \div SIZE_OF_SBET_POINT_IN_BYTES

\* ------------------------------------------------------------ interpolate
\* The range check with both comparisons inclusive.
extrapolates_inclusive(ps, t) == fge(ps[1].time, t) \/ fle(ps[Len(ps)].time, t)

\* Line 87: the query lies outside the slice's first and last times.
extrapolates(ps, t) == fgt(ps[1].time, t) \/ flt(ps[Len(ps)].time, t)

\* The bracket test with the upper comparison strict.
brackets_strictly_after(before, after, t) == fle(before.time, t) /\ fgt(after.time, t)

\* Line 95: the pair brackets the query.
brackets(before, after, t) == fle(before.time, t) /\ fge(after.time, t)

\* Line 96.
factor_of(before, after, t) == fdiv(fsub(t, before.time), fsub(after.time, before.time))

\* The field interpolated from the wrong end.
lerp_from_after(b, a, factor) == fadd(a, fmul(factor, fsub(a, b)))

\* Lines 99-121: one field of the interpolated point.
lerp(b, a, factor) == fadd(b, fmul(factor, fsub(a, b)))

\* Lines 97-122: the point of the given factor.
point_at(before, after, t, factor) ==
    [f \in FieldNames |-> IF f = "time" THEN t ELSE lerp(before[f], after[f], factor)]

\* Lines 96-122: the interpolated point.
interpolated(before, after, t) == point_at(before, after, t, factor_of(before, after, t))

\* The loop without its first pair.
pair_indices_skipping(ps) == 2..(Len(ps) - 1)

\* Line 94: the indices i of the pairs (ps[i], ps[i+1]) the loop visits, in order.
pair_indices(ps) == 1..(Len(ps) - 1)

\* Lines 94-95: the indices of the pairs that bracket the query.
bracketing(ps, t) == {i \in pair_indices(ps) : brackets(ps[i], ps[i + 1], t)}

\* The first of the indices S.
Min(S) == CHOOSE i \in S : \A j \in S : i <= j

\* Lines 88-92: Error::Extrapolation.
Extrapolation(t, s, e) ==
    [tag |-> "Err", kind |-> "Extrapolation", time |-> t, start_time |-> s, end_time |-> e]

\* interpolate: Ok(point), Err(error), or the panic of unreachable!().
interpolate(ps, t) ==
    IF Len(ps) = 0 THEN Err("NoPoints")
    ELSE IF Len(ps) = 1 THEN Err("OnePoint")
    ELSE IF extrapolates(ps, t) THEN Extrapolation(t, ps[1].time, ps[Len(ps)].time)
    ELSE IF bracketing(ps, t) # {}
         THEN Ok(interpolated(ps[Min(bracketing(ps, t))], ps[Min(bracketing(ps, t)) + 1], t))
         ELSE [tag |-> "Panic"]

\* ------------------------------------------------------------ the state
VARIABLES
    given,      \* the bytes of the input file the program is given
    source,     \* the points that file holds (its whole records), in order
    input,      \* the bytes of the source the Reader wraps
    rpos,       \* how many of them the Reader has consumed
    last,       \* the last read_one: its outcome, and the position it started at
    items,      \* what Iterator::next has returned so far, in order
    output,     \* the bytes the Writer's sink holds
    written,    \* the points write_one was given, in order
    pc,         \* where the program is
    args,       \* the command line arguments
    first_take, \* StepBy's flag: the next element is the first
    rows,       \* the lines the to-csv loop printed
    estimate,   \* the result of estimate_number_of_points, once called
    points,     \* interpolate's slice
    time,       \* interpolate's query time
    result      \* interpolate's result, once called

vars == << given, source, input, rpos, last, items, output, written, pc, args, first_take,
           rows, estimate, points, time, result >>

reader == << input, rpos, last, items >>
writer == << output, written >>
interp == << points, time, result >>

\* ------------------------------------------------------------ the inputs
MaxPoints == 2      \* the longest file of the library's runs, in whole records

\* Three points of distinct fields: ascending values, a mix of negative, infinite
\* and NaN values, and Point::default().
PointA ==
    PointOf(<< Fin(8), Fin(1), Fin(2), Fin(3), Fin(4), Fin(5), Fin(6), Fin(7),
               Fin(10), Fin(12), Fin(14), Fin(16), Fin(20), Fin(24), Fin(28),
               Fin(32), Fin(40) >>)

PointB ==
    PointOf(<< Fin(16), Fin(-1), Fin(-12), Inf(1), Inf(-1), NaN, Fin(0), Fin(48),
               Fin(-56), Fin(64), Fin(80), Fin(-96), Fin(112), Fin(-2), Fin(3),
               Fin(-5), Fin(7) >>)

CodecPoints == {PointA, PointB, DefaultPoint}

SeqsUpTo(S, n) == UNION {[1..k -> S] : k \in 0..n}

\* The file that holds the points ps: the bytes write_one produces for each.
RECURSIVE Encode(_)
Encode(ps) == IF ps = <<>> THEN <<>> ELSE write_one(<<>>, Head(ps)) \o Encode(Tail(ps))

\* The lengths of the partial record that may follow the whole records.
TailLens == {0, 1, 7, 8, 88, 112, 135}

\* A longer file: MaxPoints + 3 records.
LongFile == [i \in 1..(MaxPoints + 3) |-> PointA]

\* The file of the points ps followed by r bytes of a further record.
FileOf(ps, r) == Encode(ps) \o SubSeq(write_fields(<<>>, PointA, 1), 1, r)

NoArgs == [start_time |-> Inf(-1), stop_time |-> Inf(1), decimate |-> 1,
           include_time |-> FALSE]

Fresh == [res |-> "Init", at |-> 0]

\* The Reader and the Writer as constructed.
Opened ==
    /\ rpos = 0 /\ last = Fresh /\ items = <<>>
    /\ output = <<>> /\ written = <<>>
    /\ first_take = TRUE /\ rows = <<>>
    /\ estimate = <<>>

NoInterp == points = <<>> /\ time = Fin(0) /\ result = <<>>

\* ------------------------------------------------------------ the library
\* Iterator::next for Reader: one read_one, Ok(None) ending the iteration.
\* The match of Iterator::next on read_one's result r.
next_of(r, pos) ==
    [ item |-> IF r.res = "Some" THEN <<Ok(r.point)>>
               ELSE IF r.res = "Err" THEN <<Err("UnexpectedEof")>>
               ELSE <<>>,
      res |-> r.res,
      at |-> pos,
      pos |-> r.pos ]

\* What next() returns and where it leaves the source.
Pull(bytes, pos) == next_of(read_one(bytes, pos), pos)

\* A call of next() on the Reader.
\* The Reader after a next() of result r.
Pulled(r) ==
    /\ items' = items \o r.item
    /\ last' = [res |-> r.res, at |-> r.at]
    /\ rpos' = r.pos

IterNext ==
    /\ pc = "reading"
    /\ Pulled(Pull(input, rpos))
    /\ UNCHANGED << given, source, input, writer, pc, args, first_take, rows, estimate, interp >>

\* A call of write_one(p) on the Writer.
WriteOne(p) ==
    /\ pc = "writing"
    /\ Len(written) < MaxPoints
    /\ output' = write_one(output, p)
    /\ written' = Append(written, p)
    /\ UNCHANGED << given, source, reader, pc, args, first_take, rows, estimate, interp >>

\* The Writer is dropped and Reader::from_path opens the file it wrote.
ReadBack ==
    /\ pc \in {"writing", "done"}
    /\ pc' = "reading"
    /\ input' = output
    /\ rpos' = 0 /\ last' = Fresh /\ items' = <<>>
    /\ UNCHANGED << given, source, writer, args, first_take, rows, estimate, interp >>

\* A call of estimate_number_of_points on the file the Reader reads.
Estimate ==
    /\ pc = "reading"
    /\ estimate = <<>>
    /\ estimate' = << estimate_number_of_points(Len(input)) >>
    /\ UNCHANGED << given, source, reader, writer, pc, args, first_take, rows, interp >>

\* The library in use: a Reader over a given file, or a Writer over a new file that
\* is read back afterwards.
InitLib ==
    /\ Opened /\ NoInterp /\ args = NoArgs
    /\ \/ /\ pc = "reading"
          /\ \E ps \in SeqsUpTo(CodecPoints, MaxPoints) \cup {LongFile}, r \in TailLens :
                source = ps /\ given = FileOf(ps, r) /\ input = given
       \/ pc = "writing" /\ source = <<>> /\ given = <<>> /\ input = <<>>

NextLib ==
    \/ IterNext
    \/ \E p \in CodecPoints : WriteOne(p)
    \/ ReadBack
    \/ Estimate

SpecLib == InitLib /\ [][NextLib]_vars

\* ------------------------------------------------------------ interpolation
MaxLen == 3         \* the longest slice given to interpolate

\* The points of the crate's interpolate test: every field i.
Uniform(i) == [f \in FieldNames |-> Whole(i)]

\* Two points of mixed fields at time i. Between Low and High the first field's
\* difference is not representable and the second's overflows.
Low(i) ==
    PointOf(<< Whole(i), Fin(1), Fin(-MaxFinite), Fin(0), Fin(8), Fin(16), Fin(-8),
               Fin(2), Fin(3), Fin(1), Fin(0), Fin(4), Fin(-4), Fin(24), Fin(6),
               Fin(5), Fin(7) >>)

High(i) ==
    PointOf(<< Whole(i), Fin(Pow2(MantBits) + 2), Fin(MaxFinite), Fin(16), Fin(24),
               Fin(8), Fin(8), Fin(6), Fin(5), Fin(1), Fin(-16), Fin(12), Fin(4),
               Fin(8), Fin(6), Fin(7), Fin(3) >>)

InterpPoints == {Uniform(1), Uniform(2), Uniform(3), Low(1), High(2), Low(3), High(3)}

\* The query times: whole and half seconds around the points' times, and NaN.
QueryTimes == {Fin(i * Pow2(FracBits - 1)) : i \in 1..8} \cup {NaN}

\* A call of interpolate(&points, time).
Interpolate ==
    /\ pc = "call"
    /\ pc' = "returned"
    /\ result' = << interpolate(points, time) >>
    /\ UNCHANGED << given, source, reader, writer, args, first_take, rows, estimate, points, time >>

InitInterp ==
    /\ Opened /\ args = NoArgs /\ source = <<>> /\ given = <<>> /\ input = <<>>
    /\ pc = "call"
    /\ points \in SeqsUpTo(InterpPoints, MaxLen)
    /\ time \in QueryTimes
    /\ result = <<>>

NextInterp == Interpolate

SpecInterp == InitInterp /\ [][NextInterp]_vars

\* ------------------------------------------------------------ the command line tool
MaxRecords == 5     \* the longest file given to to-csv, in whole records
MaxStride == 3      \* the largest --decimate
MaxFilterLen == 3   \* the longest file given to filter, in whole records

\* The i-th record of a file whose records differ in time and altitude.
SeriesPoint(i) == [PointA EXCEPT !.time = Whole(i), !.altitude = Fin(i)]

Series(k) == [i \in 1..k |-> SeriesPoint(i)]

\* The partial records the tool's files may end in: none, or 88 bytes.
ToolTails == {0, 88}

\* f64::to_degrees, left uninterpreted.
to_degrees(x) == [to_degrees |-> x]

\* main.rs lines 106-110: the header line.
csv_header(include_time) ==
    << "latitude", "longitude", "altitude" >> \o (IF include_time THEN << "time" >> ELSE << >>)

\* main.rs lines 113-124: the line of a point.
csv_row(point, include_time) ==
    << to_degrees(point.latitude), to_degrees(point.longitude), point.altitude >>
       \o (IF include_time THEN << point.time >> ELSE << >>)

\* Iterator::nth(n) on the Reader: next() up to n + 1 times, stopping at the first
\* None; elem is the element returned, seen every element next() returned.
RECURSIVE nth(_, _, _)
\* An element advance_by discarded, before the elements that follow.
skipped(item, rest) == [rest EXCEPT !.seen = item \o rest.seen]

\* nth(n), given the result r of its first next().
nth_of(bytes, n, r) ==
    IF r.res = "None"
    THEN [elem |-> << >>, seen |-> << >>, pos |-> r.pos,
          last |-> [res |-> r.res, at |-> r.at]]
    ELSE IF n = 0
    THEN [elem |-> r.item, seen |-> r.item, pos |-> r.pos,
          last |-> [res |-> r.res, at |-> r.at]]
    ELSE skipped(r.item, nth(bytes, r.pos, n - 1))

\* Iterator::nth(n) at position pos.
nth(bytes, pos, n) == nth_of(bytes, n, Pull(bytes, pos))

\* StepBy::next taking step elements after the first, instead of step - 1.
step_by_next_one_more(bytes, pos, first, step) ==
    nth(bytes, pos, IF first THEN 0 ELSE step)

\* StepBy::next: the first element, then every step-th after it.
step_by_next(bytes, pos, first, step) ==
    nth(bytes, pos, IF first THEN 0 ELSE step - 1)

\* to-csv writes the header and builds reader.step_by(decimate), which panics for 0.
CsvHeader ==
    /\ pc = "start"
    /\ rows' = << csv_header(args.include_time) >>
    /\ pc' = IF args.decimate = 0 THEN "panicked" ELSE "loop"
    /\ UNCHANGED << given, source, reader, writer, args, first_take, estimate, interp >>

\* One turn of to-csv's loop: the next element of the StepBy, unwrapped and printed.
\* The loop's turn on the result r of StepBy::next.
Surfaced(r) ==
    /\ first_take' = FALSE
    /\ items' = items \o r.seen
    /\ rpos' = r.pos
    /\ last' = r.last
    /\ IF r.elem = << >>
       THEN pc' = "done" /\ rows' = rows
       ELSE IF r.elem[1].tag = "Err"
       THEN pc' = "panicked" /\ rows' = rows
       ELSE /\ pc' = "loop"
            /\ rows' = Append(rows, csv_row(r.elem[1].point, args.include_time))

CsvStep ==
    /\ pc = "loop"
    /\ Surfaced(step_by_next(input, rpos, first_take, args.decimate))
    /\ UNCHANGED << given, source, input, writer, args, estimate, interp >>

InitCsv ==
    /\ Opened /\ NoInterp
    /\ pc = "start"
    /\ \E k \in 0..MaxRecords, r \in ToolTails :
          source = Series(k) /\ given = FileOf(Series(k), r) /\ input = given
    /\ \E d \in 0..MaxStride, t \in BOOLEAN :
          args = [NoArgs EXCEPT !.decimate = d, !.include_time = t]

NextCsv == CsvHeader \/ CsvStep

SpecCsv == InitCsv /\ [][NextCsv]_vars

\* The filter's test with both bounds exclusive.
in_range_exclusive(point, start_time, stop_time) ==
    fgt(point.time, start_time) /\ flt(point.time, stop_time)

\* main.rs line 83: the filter's test.
in_range(point, start_time, stop_time) ==
    fge(point.time, start_time) /\ fle(point.time, stop_time)

\* One turn of filter's loop: the next element of the Reader, unwrapped, and written
\* if its time is in range.
\* The loop's turn on the result r of the Reader's next().
Filtered(r) ==
    /\ items' = items \o r.item
    /\ rpos' = r.pos
    /\ last' = [res |-> r.res, at |-> r.at]
    /\ IF r.res = "None"
       THEN pc' = "done" /\ UNCHANGED writer
       ELSE IF r.res = "Err"
       THEN pc' = "panicked" /\ UNCHANGED writer
       ELSE /\ pc' = "loop"
            /\ IF in_range(r.item[1].point, args.start_time, args.stop_time)
               THEN /\ output' = write_one(output, r.item[1].point)
                    /\ written' = Append(written, r.item[1].point)
               ELSE UNCHANGED writer

FilterStep ==
    /\ pc = "loop"
    /\ Filtered(Pull(input, rpos))
    /\ UNCHANGED << given, source, input, args, first_take, rows, estimate, interp >>

FilterPoints == {SeriesPoint(1), SeriesPoint(2), SeriesPoint(3)}

StartTimes == {Inf(-1), Whole(2), Whole(3), NaN}
StopTimes == {Whole(1), Whole(2), Inf(1)}

InitFilter ==
    /\ Opened /\ NoInterp
    /\ pc = "loop"
    /\ \E ps \in SeqsUpTo(FilterPoints, MaxFilterLen), r \in ToolTails :
          source = ps /\ given = FileOf(ps, r) /\ input = given
    /\ \E a \in StartTimes, b \in StopTimes :
          args = [NoArgs EXCEPT !.start_time = a, !.stop_time = b]

NextFilter == FilterStep \/ ReadBack \/ IterNext

SpecFilter == InitFilter /\ [][NextFilter]_vars

\* ------------------------------------------------------------ the claims
\* The reader has been pulled until it returned None.
Exhausted == pc = "reading" /\ last.res = "None"

AllOk(its) == \A i \in 1..Len(its) : its[i].tag = "Ok"

\* C1: a stream of 112*K + r bytes, 1 <= r <= 111, yields K points and then a decode
\* error, and read_one returns Ok(None) only when no byte remains at the start of a
\* record.
C1_TruncatedRecordIsAnError ==
    /\ last.res = "None" => last.at = Len(input)
    /\ Exhausted /\ Len(input) % 112 # 0 =>
          /\ Len(items) = Len(input) \div 112 + 1
          /\ AllOk(SubSeq(items, 1, Len(input) \div 112))
          /\ items[Len(items)].tag = "Err"

\* The reader reads the file the writer wrote.
ReadingBack == pc = "reading" /\ input = output

\* What C2 says of the Reader over the written bytes: K Ok elements in the order
\* written, then the clean end of the stream, and no error element.
YieldsWhatWasWritten ==
    ReadingBack =>
       /\ Len(items) <= Len(written)
       /\ AllOk(items)
       /\ \A i \in 1..Len(items) : items[i].point.time = written[i].time
       /\ last.res # "Err"
       /\ last.res = "None" => Len(items) = Len(written)

\* C2 as claimed: K write_one calls produce 112*K bytes, and a Reader over them
\* yields K Ok elements, in the order written, then the clean end of the stream.
C2_CountLaw112 ==
    /\ Len(output) = 112 * Len(written)
    /\ YieldsWhatWasWritten

\* C2, amended: K write_one calls produce 136*K bytes (17 fields of 8 bytes), and a
\* Reader over them yields K Ok elements, in the order written, then the clean end of
\* the stream, and no error element.
C2_CountLaw ==
    /\ Len(output) = 136 * Len(written)
    /\ YieldsWhatWasWritten

C2_Witness ==
    /\ ReadingBack /\ last.res = "None"
    /\ Len(written) = MaxPoints /\ Len(items) = MaxPoints
    /\ written[1] # written[2]

\* What C3 says of the fields: read_one returns every point written with all 17
\* fields equal (as bit patterns).
ReadsBackEveryField ==
    ReadingBack =>
       \A i \in 1..Len(items) :
          /\ items[i].tag = "Ok"
          /\ \A f \in FieldNames : items[i].point[f] = written[i][f]

\* C3 as claimed: write_one(p) produces 112 bytes, and read_one of them returns p in
\* all 17 fields.
C3_RoundTrip112 ==
    /\ Len(written) = 1 => Len(output) = 112
    /\ ReadsBackEveryField

\* C3, amended: write_one(p) produces 136 bytes, the 17 fields in the order time,
\* latitude, longitude, altitude, x/y/z_velocity, roll, pitch, yaw, wander_angle,
\* x/y/z_acceleration, x/y/z_angular_rate, each as the 8 bytes of its binary64
\* pattern, least significant first, and read_one of them returns p in all 17 fields.
C3_RoundTrip ==
    /\ \A i \in 1..Len(written) : \A j \in 1..17 :
          SubSeq(output, 136 * (i - 1) + 8 * (j - 1) + 1, 136 * (i - 1) + 8 * j)
             = Reverse(to_bits(written[i][Fields[j]]))
    /\ Len(written) = 1 => Len(output) = 136
    /\ ReadsBackEveryField

C3_Witness ==
    /\ ReadingBack /\ Len(items) >= 1
    /\ written[1] = PointB /\ items[1] = Ok(PointB)

\* C9: estimate_number_of_points is the file's size divided by 112, rounded down (224
\* bytes give 2), and for a well-formed file (of 112*K bytes) it is K, the number of
\* points the Reader yields when the file is read to the end.
C9_Estimate ==
    estimate # <<>> =>
       /\ estimate[1] * 112 <= Len(input) /\ Len(input) < (estimate[1] + 1) * 112
       /\ Len(input) = 224 => estimate[1] = 2
       /\ Exhausted /\ Len(input) % 112 = 0 =>
             AllOk(items) /\ estimate[1] = Len(items)

\* interpolate has returned (or panicked).
Called == pc = "returned"

IsFin(x) == x.cls = "fin"

\* x - y is a value of the format: the subtraction does not round.
ExactDiff(x, y) == IsFin(x) /\ IsFin(y) /\ Round(x.n - y.n, 1) = Fin(x.n - y.n)

\* (x + y) / 2 is a value of the format.
ExactMean(x, y) ==
    /\ IsFin(x) /\ IsFin(y) /\ (x.n + y.n) % 2 = 0
    /\ Round((x.n + y.n) \div 2, 1) = Fin((x.n + y.n) \div 2)

Mean(x, y) == Fin((x.n + y.n) \div 2)

StrictlyAscending(ps) == \A i \in 1..(Len(ps) - 1) : flt(ps[i].time, ps[i + 1].time)

TwoSorted ==
    /\ Called /\ Len(points) = 2
    /\ IsFin(time) /\ IsFin(points[1].time) /\ IsFin(points[2].time)
    /\ flt(points[1].time, points[2].time)
    /\ fle(points[1].time, time) /\ fle(time, points[2].time)

AtMidpoint == 2 * time.n = points[1].time.n + points[2].time.n

\* C5 as claimed: for a sorted two-point slice [P1 at t1, P2 at t2], t1 < t2,
\* interpolate succeeds for every query in [t1, t2]; at t1 it returns P1 exactly, at
\* t2 it returns P2 exactly, and at the midpoint every field is the arithmetic mean
\* of P1's and P2's.
C5_BoundariesExact ==
    TwoSorted =>
       /\ result[1].tag = "Ok"
       /\ time = points[1].time => result[1].point = points[1]
       /\ time = points[2].time => result[1].point = points[2]
       /\ AtMidpoint =>
             \A f \in FieldNames :
                /\ IsFin(result[1].point[f])
                /\ 2 * result[1].point[f].n = points[1][f].n + points[2][f].n

\* C5, amended: interpolate succeeds for every query in [t1, t2] and the result's
\* time is the query; at t1 the factor is 0 and a field is P1's when P2's minus P1's
\* does not overflow; at t2 the factor is 1 (t2 - t1 not overflowing) and a field is
\* P2's when P2's minus P1's is exactly representable; at the midpoint the factor is
\* 1/2 (the time differences being exact) and a field is the mean when the
\* difference and the mean are exactly representable.
C5_TwoPoints ==
    TwoSorted =>
       LET p1 == points[1]
           p2 == points[2]
           factor == factor_of(p1, p2, time)
           exactTimes == ExactDiff(time, p1.time) /\ ExactDiff(p2.time, p1.time)
       IN  /\ result[1].tag = "Ok"
           /\ result[1].point.time = time
           /\ time = p1.time =>
                 /\ factor = Fin(0)
                 /\ \A f \in FieldNames :
                       IsFin(fsub(p2[f], p1[f])) => result[1].point[f] = p1[f]
           /\ (time = p2.time /\ IsFin(fsub(p2.time, p1.time))) =>
                 /\ factor = Whole(1)
                 /\ \A f \in FieldNames :
                       ExactDiff(p2[f], p1[f]) => result[1].point[f] = p2[f]
           /\ (AtMidpoint /\ exactTimes) =>
                 /\ factor = Fin(Pow2(FracBits - 1))
                 /\ \A f \in FieldNames :
                       (ExactDiff(p2[f], p1[f]) /\ ExactMean(p1[f], p2[f])) =>
                          result[1].point[f] = Mean(p1[f], p2[f])

\* The crate's test: all fields 1.0 and all fields 2.0, at 1.5, give all fields 1.5.
C5_Witness ==
    /\ TwoSorted
    /\ points = << Uniform(1), Uniform(2) >>
    /\ time = Fin(3 * Pow2(FracBits - 1))
    /\ result[1] = Ok([f \in FieldNames |-> Fin(3 * Pow2(FracBits - 1))])

\* The case of C6: a strictly ascending slice of three or more points and a query
\* equal to the time of the interior point i.
InteriorTie(i) ==
    /\ Called /\ Len(points) >= 3
    /\ \A j \in 1..Len(points) : IsFin(points[j].time)
    /\ StrictlyAscending(points)
    /\ i \in 2..(Len(points) - 1)
    /\ time = points[i].time

\* C6 as claimed: the interior point's values are returned unchanged, from the pair
\* in which the matching point is 'before', with factor 0.
C6_TieAgainstBefore ==
    \A i \in 1..Len(points) :
       InteriorTie(i) =>
          /\ Min(bracketing(points, time)) = i
          /\ factor_of(points[i], points[i + 1], time) = Fin(0)
          /\ result[1] = Ok(points[i])

\* C6, amended: the pair selected is the first that brackets the query, in which the
\* matching point is 'after', with factor 1 (the two times' difference not
\* overflowing); the result's time is the query, and a field is the interior point's
\* when its difference from the point before is exactly representable.
C6_TieAgainstAfter ==
    \A i \in 1..Len(points) :
       (InteriorTie(i) /\ IsFin(fsub(points[i].time, points[i - 1].time))) =>
          /\ Min(bracketing(points, time)) = i - 1
          /\ factor_of(points[i - 1], points[i], time) = Whole(1)
          /\ result[1] = Ok(interpolated(points[i - 1], points[i], time))
          /\ result[1].point.time = points[i].time
          /\ \A f \in FieldNames :
                ExactDiff(points[i][f], points[i - 1][f]) =>
                   result[1].point[f] = points[i][f]

\* An interior tie whose result is not the interior point: a field was rounded.
C6_Witness ==
    /\ InteriorTie(2)
    /\ result[1].tag = "Ok"
    /\ result[1].point # points[2]
    /\ result[1].point.latitude # points[2].latitude

\* C10: for two or more points of non-NaN times, sorted or not, and a query q with
\* points[0].time <= q <= last.time, the scan finds an adjacent pair with
\* before.time <= q <= after.time and returns Ok computed from the first such pair;
\* unreachable!() is not executed.
C10_ScanFindsAPair ==
    ( /\ Called /\ Len(points) >= 2
      /\ \A j \in 1..Len(points) : IsNum(points[j].time)
      /\ IsNum(time)
      /\ fle(points[1].time, time) /\ fle(time, points[Len(points)].time) ) =>
       /\ result[1].tag # "Panic"
       /\ \E i \in 1..(Len(points) - 1) :
             /\ fle(points[i].time, time) /\ fle(time, points[i + 1].time)
             /\ \A j \in 1..(i - 1) :
                   ~(fle(points[j].time, time) /\ fle(time, points[j + 1].time))
             /\ result[1] = Ok(interpolated(points[i], points[i + 1], time))

\* An unsorted slice whose first pair does not bracket the query.
C10_Witness ==
    /\ Called /\ Len(points) = 3
    /\ flt(points[2].time, points[1].time)
    /\ fle(points[1].time, time) /\ fle(time, points[3].time)
    /\ result[1] = Ok(interpolated(points[2], points[3], time))

\* The slice is sorted ascending by time, equal times allowed.
NonDecreasing(ps) == \A i \in 1..(Len(ps) - 1) : fle(ps[i].time, ps[i + 1].time)

\* C11 as claimed: for two or more points sorted non-decreasing by time and an
\* in-range query, the pair interpolate selects has after.time strictly greater than
\* before.time, and the divisor after.time - before.time of the factor is not zero.
C11_DivisorNeverZero ==
    ( /\ Called /\ Len(points) >= 2
      /\ NonDecreasing(points)
      /\ fle(points[1].time, time) /\ fle(time, points[Len(points)].time) ) =>
       LET i == Min(bracketing(points, time))
       IN  /\ result[1] = Ok(interpolated(points[i], points[i + 1], time))
           /\ flt(points[i].time, points[i + 1].time)
           /\ fsub(points[i + 1].time, points[i].time) # Fin(0)

\* The given file holds whole records only.
WellFormed == Len(given) = 136 * Len(source)

\* C7: with a stride N >= 1 over a well-formed file of K records, the loop surfaces
\* exactly the records at indices 0, N, 2N, ... below K, in order; N = 1 surfaces
\* every record; every skipped record is pulled through the Reader, which advances
\* one record for each.
C7_Decimation ==
    (pc # "start" /\ WellFormed /\ args.decimate >= 1) =>
       LET n == args.decimate
           k == Len(source)
           body == Tail(rows)
       IN  /\ pc \in {"loop", "done"}
           /\ \A j \in 1..Len(body) :
                 /\ (j - 1) * n + 1 <= k
                 /\ body[j][3] = source[(j - 1) * n + 1].altitude
                 /\ args.include_time => body[j][4] = source[(j - 1) * n + 1].time
           /\ Len(items) <= k
           /\ \A i \in 1..Len(items) : items[i] = Ok(source[i])
           /\ rpos = 136 * Len(items)
           /\ (pc = "loop" /\ Len(body) >= 1) => Len(items) = (Len(body) - 1) * n + 1
           /\ pc = "done" => Len(items) = k /\ Len(body) = (k + n - 1) \div n

C7_Witness ==
    /\ pc = "done" /\ WellFormed
    /\ args.decimate = 2 /\ Len(source) = 5
    /\ Len(rows) = 4 /\ Len(items) = 5
    /\ rows[3][3] = source[3].altitude

\* C8: for a well-formed input and any start and stop, the loop writes exactly the
\* points with start <= time <= stop, each once, in their order, and no other;
\* reading the output back yields that subsequence.
C8_Filter ==
    WellFormed =>
       LET Keep(p) == fle(args.start_time, p.time) /\ fle(p.time, args.stop_time)
           kept == SelectSeq(source, Keep)
       IN  /\ pc # "panicked"
           /\ pc = "loop" => /\ items = [i \in 1..Len(items) |-> Ok(source[i])]
                             /\ written = SelectSeq(SubSeq(source, 1, Len(items)), Keep)
           /\ pc \in {"done", "reading"} => written = kept
           /\ pc = "reading" =>
                 /\ input = output
                 /\ Len(items) <= Len(kept)
                 /\ \A i \in 1..Len(items) : items[i] = Ok(kept[i])
                 /\ last.res # "Err"
                 /\ last.res = "None" => Len(items) = Len(kept)

C8_Witness ==
    /\ WellFormed /\ pc = "reading" /\ last.res = "None"
    /\ Len(source) = 3 /\ Len(items) = 2
    /\ args.start_time = Whole(2) /\ args.stop_time = Inf(1)
    /\ source[1].time = Whole(3) /\ source[2].time = Whole(1) /\ source[3].time = Whole(2)

====
